---- MODULE Spec2Model ----
(***************************************************************************)
(* Model of the meeting-ai transcript-to-report pipeline:                  *)
(*   src/src/auto_summarize.py      ReportGenerator (probe, token-aware    *)
(*                                  split, model gateway with retries,     *)
(*                                  narrate / re-split loop, structure)    *)
(*   src/src/ai_meeting_generator.py  run() (transcribe, generate, export) *)
(*   src/src/note.py                _call_azure_api (gateway with delays)  *)
(*                                                                         *)
(* A text is a sequence of characters.  The tokenizer (tiktoken, an        *)
(* external library) is modelled by a byte-level encoding in which the     *)
(* ASCII characters are one token each and the CJK character "W" is two    *)
(* tokens ("w1", "w2"); a token run that holds only a part of a character  *)
(* decodes to the replacement character "?" (U+FFFD), as                   *)
(* bytes.decode(errors="replace") does inside tiktoken's decode.           *)
(***************************************************************************)
EXTENDS Integers, Sequences, FiniteSets, TLC

----------------------------------------------------------------------------
(* Bounds of the model *)

\* narrate batches explored in one run of generate_report
MaxCycles == 2
\* failed attempts the provider inflicts on one run
MaxFailures == 3
\* calls of generate_report made on one generator
MaxRuns == 2

----------------------------------------------------------------------------
(* Program constants *)

COMPLETION_TOKEN == 1000
PROMPT_TOKEN == 200
CHUNK_MIN_LENGTH == 1000
\* the literal added to total_tokens in the test of _best_choice_split
PASS_LIMIT_EXTRA == 1000
\* _get_model_limit: int(match.group(1)) - 100
PROBE_MARGIN == 100
\* _openai_parallel_request(max_attempts=3)
max_attempts == 3
\* _count_tokens: tokens_per_message, len(encode("user")), reply priming
tokens_per_message == 3
role_tokens == 1
reply_priming == 3
\* note.py: retries = 3, time.sleep(10)
retries == 3
RETRY_DELAY == 10

----------------------------------------------------------------------------
(* Texts and the tokenizer *)

\* str.rstrip(" .,;")
StripChars == {" ", ".", ",", ";"}

\* the i-th character of the texts the model enumerates
CharAt(kind, i) ==
    CASE kind = "ascii" -> "a"
      [] kind = "prose" -> IF i % 7 = 0 THEN "."
                           ELSE IF i % 7 = 1 THEN " " ELSE "a"
      [] kind = "han"   -> "W"
      [] OTHER          -> IF i % 3 = 0 THEN "W" ELSE "a"

MkText(n, kind) == [i \in 1..n |-> CharAt(kind, i)]

TextKinds == {"ascii", "prose", "cjk"}

EncodeChar(c) == IF c = "W" THEN <<"w1", "w2">> ELSE <<c>>

\* enc.encode(text): the tokens of the characters, in order
RECURSIVE Encode(_)
Encode(s) ==
    IF Len(s) = 0 THEN <<>>
    ELSE IF Len(s) = 1 THEN EncodeChar(s[1])
    ELSE LET h == Len(s) \div 2
         IN  Encode(SubSeq(s, 1, h)) \o Encode(SubSeq(s, h + 1, Len(s)))

\* enc.decode(tokens): a complete "w1","w2" pair is the character "W"; a token
\* of a character whose other token is not next to it decodes to "?"
Decode(toks) ==
    LET piece(i) ==
          CASE toks[i] = "w1" ->
                 IF i < Len(toks) /\ toks[i + 1] = "w2" THEN "W" ELSE "?"
            [] toks[i] = "w2" ->
                 IF i > 1 /\ toks[i - 1] = "w1" THEN "" ELSE "?"
            [] OTHER -> toks[i]
    IN  SelectSeq([i \in 1..Len(toks) |-> piece(i)], LAMBDA c : c # "")

\* chunk.rstrip(" .,;")
RECURSIVE Rstrip(_)
Rstrip(s) ==
    IF Len(s) > 0 /\ s[Len(s)] \in StripChars
    THEN Rstrip(SubSeq(s, 1, Len(s) - 1))
    ELSE s

\* "".join(list)
RECURSIVE Join(_)
Join(list) ==
    IF Len(list) = 0 THEN <<>>
    ELSE IF Len(list) = 1 THEN list[1]
    ELSE LET h == Len(list) \div 2
         IN  Join(SubSeq(list, 1, h)) \o Join(SubSeq(list, h + 1, Len(list)))

\* Python's //, % and math.ceil(a / b) on integers (b # 0)
PyFloorDiv(a, b) == IF b > 0 THEN a \div b ELSE (-a) \div (-b)
PyMod(a, b) == IF b > 0 THEN a % b ELSE -((-a) % (-b))
PyCeilDiv(a, b) == -PyFloorDiv(-a, b)

----------------------------------------------------------------------------
(* ReportGenerator._count_tokens, called with its default model *)

CountTokens(content) ==
    tokens_per_message + role_tokens + Len(Encode(content)) + reply_priming

\* _count_tokens: the default of its parameter model
DefaultCountModel == "gpt-3.5-turbo-0613"

\* run(): the text_model of its usage example and of its docstring
ExampleTextModel == "gpt-3.5-turbo"

\* the models of the first branch of _count_tokens
CountedModels == {"gpt-3.5-turbo-0613", "gpt-3.5-turbo-16k-0613", "gpt-4-0314",
                  "gpt-4-32k-0314", "gpt-4-0613", "gpt-4-32k-0613"}

\* the model of the second branch, with its tokens_per_message
LegacyModel == "gpt-3.5-turbo-0301"
legacy_tokens_per_message == 4

\* the models _count_tokens does not raise for
KnownModels == CountedModels \cup {LegacyModel}

\* the identifiers tiktoken.encoding_for_model has an encoding for: the chat
\* models by name or by prefix; for any other identifier it raises KeyError
TiktokenModels ==
    KnownModels \cup {"gpt-3.5-turbo", "gpt-3.5-turbo-16k", "gpt-4"}

\* the identifiers _count_tokens is called with
ModelIds == TiktokenModels \cup {"my-model"}

NoCount == [called |-> FALSE, warned |-> FALSE, raised |-> FALSE, tokens |-> 0]

\* _count_tokens(content, model): the warning of the encoding fallback, the
\* NotImplementedError of the last branch, and the count returned otherwise
CountTokensFor(content, model) ==
    LET warned == model \notin TiktokenModels
        per_message == IF model \in CountedModels THEN tokens_per_message
                       ELSE legacy_tokens_per_message
    IN  IF model \in CountedModels \/ model = LegacyModel
        THEN [called |-> TRUE, warned |-> warned, raised |-> FALSE,
              tokens |-> per_message + role_tokens + Len(Encode(content))
                         + reply_priming]
        ELSE [called |-> TRUE, warned |-> warned, raised |-> TRUE,
              tokens |-> 0]

----------------------------------------------------------------------------
(* ReportGenerator._split_large_text *)

\* a variant that closes a chunk one token late (">" for ">=")
SplitTokensLate(toks, max_tokens) ==
    LET m == (IF max_tokens < 1 THEN 1 ELSE max_tokens) + 1
        count == (Len(toks) + m - 1) \div m
    IN  [k \in 1..count |->
            SubSeq(toks, (k - 1) * m + 1,
                   IF k * m < Len(toks) THEN k * m ELSE Len(toks))]

\* The loop over tokenized_text: a chunk is closed as soon as it holds
\* max_tokens tokens (one token when max_tokens < 1, since the test
\* current_length >= max_tokens follows the append), and the tokens left at
\* the end are flushed as the last chunk.
SplitTokens(toks, max_tokens) ==
    LET m == IF max_tokens < 1 THEN 1 ELSE max_tokens
        count == (Len(toks) + m - 1) \div m
    IN  [k \in 1..count |->
            SubSeq(toks, (k - 1) * m + 1,
                   IF k * m < Len(toks) THEN k * m ELSE Len(toks))]

SplitLargeText(large_text, max_tokens) ==
    LET runs == SplitTokens(Encode(large_text), max_tokens)
    IN  [k \in 1..Len(runs) |-> Rstrip(Decode(runs[k]))]

----------------------------------------------------------------------------
(* ReportGenerator._best_choice_split *)

\* a variant that reserves the extra margin twice
FitsReservingTwice(total_tokens, limit) ==
    total_tokens + 2 * PASS_LIMIT_EXTRA < limit

\* "if total_tokens + 1000 < self.model_limit"
Fits(total_tokens, limit) == total_tokens + PASS_LIMIT_EXTRA < limit

\* The result: the chunks, the pass_limit flag, the per-chunk budget
\* (best_chunk, 0 when the text fits and none is computed), the exception
\* raised ("none" when the call returns) and the token count the function
\* computed for its input (transcript_token).
BestChoiceSplit(split_data, limit) ==
    LET transcript_token == CountTokens(split_data)
        total_tokens == transcript_token + COMPLETION_TOKEN + PROMPT_TOKEN
        available_chunk_space == limit - COMPLETION_TOKEN - PROMPT_TOKEN
        raise == [chunks |-> <<>>, pass_limit |-> FALSE, best_chunk |-> 0,
                  error |-> "ZeroDivisionError",
                  transcript_token |-> transcript_token]
    IN  IF Fits(total_tokens, limit)
        THEN [chunks |-> <<split_data>>, pass_limit |-> TRUE, best_chunk |-> 0,
              error |-> "none", transcript_token |-> transcript_token]
        ELSE IF available_chunk_space = 0 THEN raise
        ELSE LET last_chunk_space ==
                     PyMod(transcript_token, available_chunk_space)
                 quotient == PyFloorDiv(transcript_token, available_chunk_space)
             IN  IF last_chunk_space < CHUNK_MIN_LENGTH /\ quotient = 0
                 THEN raise
                 ELSE LET best_chunk ==
                            IF last_chunk_space < CHUNK_MIN_LENGTH
                            THEN PyCeilDiv(transcript_token - CHUNK_MIN_LENGTH,
                                           quotient)
                            ELSE available_chunk_space
                      IN  [chunks |-> SplitLargeText(split_data, best_chunk),
                           pass_limit |-> FALSE, best_chunk |-> best_chunk,
                           error |-> "none",
                           transcript_token |-> transcript_token]

----------------------------------------------------------------------------
(* State *)

VARIABLES
    pc,                 \* control point of run() and of generate_report()
    transcript,         \* the transcript handed to ReportGenerator
    files,              \* names of the files written so far
    model_limit,        \* ReportGenerator.model_limit
    prompt_tokens,      \* ReportGenerator.prompt_tokens
    completion_tokens,  \* ReportGenerator.completion_tokens
    chunks,             \* generate_report: chunks
    pass_limit,         \* generate_report: pass_limit
    summary_list,       \* generate_report: summary_list
    attempt,            \* _openai_parallel_request: the loop variable
    report,             \* <<>> or <<the report returned by generate_report>>
    usage,              \* <<>> or <<generator.get_spent_tokens()>>
    error,              \* the exception that left run(), "none" if none
    cycles,             \* history: narrate batches completed
    calls,              \* history: chat request batches issued
    failed,             \* history: attempts that failed
    okPrompt,           \* history: prompt tokens of the attempts that returned
    okCompletion,       \* history: completion tokens of those attempts
    call,               \* history: the current or last gateway call
    cycle_tokens,       \* history: token count of the text the chunks came from
    best_chunk,         \* history: the per-chunk budget of the last split
    probe,              \* history: the provider's answer to the probe
    runs,               \* history: calls of generate_report on the generator
    chunk_size,         \* _chunk_transcript: the chunk_size it is called with
    text_model,         \* ReportGenerator.model
    num_tokens,         \* the outcome of a call of _count_tokens
    recorder,           \* UsageRecorder: the fields of the object
    snapshot,           \* <<>> or <<the tuple get_report_usage returned>>
    disk,               \* ReportExporter: file path -> content of the file
    exports,            \* history: the export calls made, in order
    answer,             \* _process_string: the lines of the model output
    processed,          \* _process_string: the lines it returns
    converter,          \* SpeechToTextConverter: fields and locals
    audio_files,        \* path -> the audio file or directory at the path
    slept,              \* seconds spent in time.sleep
    npc,                \* note.py: control point of _call_azure_api
    retry,              \* note.py: the loop variable
    nresult             \* note.py: <<>> or <<content returned>>, and the error

vars == <<pc, transcript, files, model_limit, prompt_tokens, completion_tokens,
          chunks, pass_limit, summary_list, attempt, report, usage, error,
          cycles, calls, failed, okPrompt, okCompletion, call, cycle_tokens,
          best_chunk, probe, runs, chunk_size, text_model, num_tokens,
          recorder, snapshot, disk, exports, answer, processed, converter,
          audio_files, slept, npc, retry, nresult>>

\* the variables of the helpers that are also called on their own
sideVars == <<chunk_size, text_model, num_tokens, recorder, snapshot, disk,
              exports, answer, processed, converter, audio_files>>

\* the variables of the post-processing and of the converter
lateVars == <<answer, processed, converter, audio_files>>

\* the variables of the exporter
exportVars == <<disk, exports>>

genVars == <<model_limit, prompt_tokens, completion_tokens, chunks, pass_limit,
             summary_list, attempt, report, cycles, calls, failed, okPrompt,
             okCompletion, call, cycle_tokens, best_chunk, probe, runs,
             sideVars>>

noteVars == <<npc, retry, nresult>>

----------------------------------------------------------------------------
(* Inputs *)

\* the transcripts a run is given: an empty one, and one that fits neither
\* limit (two chunks under the smaller limit, one under the larger)
Transcripts == {MkText(0, "ascii"), MkText(2000, "prose")}

\* "This model's maximum context length is N" as reported by the provider
ContextLengths == {3300, 4097}

\* what the model writes for one chunk (max_tokens = 1000)
NarrateOutputs == {MkText(100, "prose"), MkText(1000, "ascii")}

\* what the model writes as the report (max_tokens = 2000)
ReportOutputs == {MkText(40, "prose")}

\* usage numbers the provider reports for one request
PromptUsages == {10}
CompletionUsages == {20}

----------------------------------------------------------------------------
(* The provider's answer to one request of a batch: item[2] *)

Item(shape, content, p, c) ==
    [shape |-> shape, content |-> content,
     prompt_tokens |-> p, completion_tokens |-> c]

\* "ok": choices and a complete usage record; "error": an error body without
\* choices; "no_usage": choices without usage (or usage without
\* prompt_tokens); "no_completion": choices and a usage record that holds
\* prompt_tokens but not completion_tokens
Items(contents) ==
    {Item("ok", t, p, c) : t \in contents, p \in PromptUsages,
                           c \in CompletionUsages}
    \cup {Item("error", <<>>, 0, 0), Item("no_usage", <<>>, 0, 0)}
    \cup {Item("no_completion", <<>>, p, 0) : p \in PromptUsages}

Responses(n, contents) == [1..n -> Items(contents)]

HasChoices(item) == item.shape \in {"ok", "no_usage", "no_completion"}
HasPromptTokens(item) == item.shape \in {"ok", "no_completion"}
HasCompletionTokens(item) == item.shape = "ok"

RECURSIVE SumField(_, _, _)
SumField(response, field, n) ==
    IF n = 0 THEN 0 ELSE response[n][field] + SumField(response, field, n - 1)

----------------------------------------------------------------------------
(* ReportGenerator._openai_parallel_request *)

\* One pass through the try block on a response of n items: the list of
\* contents is built first (KeyError on an item without choices), then
\* prompt_tokens is increased by the sum over all items (KeyError on an item
\* without usage.prompt_tokens), then completion_tokens likewise.  Each
\* augmented assignment stores only when its sum was computed.
ParseResponse(p, c, response, n) ==
    IF \E i \in 1..n : ~HasChoices(response[i])
    THEN [prompt_tokens |-> p, completion_tokens |-> c,
          error |-> "KeyError: choices", assistant_responses |-> <<>>]
    ELSE IF \E i \in 1..n : ~HasPromptTokens(response[i])
    THEN [prompt_tokens |-> p, completion_tokens |-> c,
          error |-> "KeyError: usage", assistant_responses |-> <<>>]
    ELSE IF \E i \in 1..n : ~HasCompletionTokens(response[i])
    THEN [prompt_tokens |-> p + SumField(response, "prompt_tokens", n),
          completion_tokens |-> c,
          error |-> "KeyError: completion_tokens",
          assistant_responses |-> <<>>]
    ELSE [prompt_tokens |-> p + SumField(response, "prompt_tokens", n),
          completion_tokens |-> c + SumField(response, "completion_tokens", n),
          error |-> "none",
          assistant_responses |-> [i \in 1..n |-> response[i].content]]

\* a variant that compares the loop variable itself with max_attempts
RaiseNowOffByOne(a) == a = max_attempts

\* The except clause: "if attempt + 1 == max_attempts: raise e"
RaiseNow(a) == a + 1 = max_attempts

\* How one pass of "for attempt in range(max_attempts)" ends: the function
\* returns the contents, raises the attempt's error, goes on to the next
\* attempt, or leaves the loop and returns None.
AttemptOutcome(err, a) ==
    IF err = "none" THEN "return"
    ELSE IF RaiseNow(a) THEN "raise"
    ELSE IF a + 1 < max_attempts THEN "retry"
    ELSE "return_none"

\* a variant in which generate_report swallows a failed narrate batch and
\* goes on to the structure call
OnFatalSwallowNarrate(stage) ==
    IF stage = "narrate" THEN "structure" ELSE "raised"

\* generate_report and run() hold no try/except: an exception raised in a
\* stage leaves both at once
OnFatal(stage) == "raised"

\* The part of an attempt that is the same in every stage
GatewayAttempt(stage, response, n) ==
    LET res == ParseResponse(prompt_tokens, completion_tokens, response, n)
        out == AttemptOutcome(res.error, attempt)
        ok == res.error = "none"
    IN  /\ ok \/ failed < MaxFailures
        /\ prompt_tokens' = res.prompt_tokens
        /\ completion_tokens' = res.completion_tokens
        /\ calls' = calls + 1
        /\ failed' = IF ok THEN failed ELSE failed + 1
        /\ okPrompt' = IF ok THEN okPrompt + SumField(response, "prompt_tokens", n)
                       ELSE okPrompt
        /\ okCompletion' =
              IF ok THEN okCompletion + SumField(response, "completion_tokens", n)
              ELSE okCompletion
        /\ attempt' = IF out = "retry" THEN attempt + 1 ELSE attempt
        /\ call' = [stage |-> stage,
                    outcome |-> out,
                    attempts |-> attempt + 1,
                    error |-> res.error,
                    start |-> IF attempt = 0
                              THEN <<prompt_tokens, completion_tokens>>
                              ELSE call.start,
                    start_slept |-> IF attempt = 0 THEN slept
                                    ELSE call.start_slept,
                    usage |-> IF ok
                              THEN <<SumField(response, "prompt_tokens", n),
                                     SumField(response, "completion_tokens", n)>>
                              ELSE <<0, 0>>]
        /\ error' = CASE out = "raise" -> res.error
                      [] out = "return_none" -> "TypeError"
                      [] OTHER -> error

NoCall == [stage |-> "none", outcome |-> "none", attempts |-> 0,
           error |-> "none", start |-> <<0, 0>>, start_slept |-> 0,
           usage |-> <<0, 0>>]

----------------------------------------------------------------------------
(* ReportGenerator._get_model_limit *)

\* the shapes of response[0][2] the probe can meet
ProbeResponses ==
    {[kind |-> "context_error", max |-> n] : n \in ContextLengths}
    \cup {[kind |-> k, max |-> 0] :
             k \in {"no_error_key", "other_message", "request_failed"}}

NoProbe == [kind |-> "none", max |-> 0]

\* a variant that falls back to a default limit when the message has another
\* shape
GetModelLimitGuessing(response) ==
    CASE response.kind = "context_error" ->
           [limit |-> response.max - PROBE_MARGIN, error |-> "none"]
      [] response.kind = "no_error_key" -> [limit |-> 0, error |-> "KeyError: error"]
      [] response.kind = "other_message" -> [limit |-> 4000, error |-> "none"]
      [] OTHER -> [limit |-> 0, error |-> "Exception"]

GetModelLimit(response) ==
    CASE response.kind = "context_error" ->
           [limit |-> response.max - PROBE_MARGIN, error |-> "none"]
      [] response.kind = "no_error_key" -> [limit |-> 0, error |-> "KeyError: error"]
      [] response.kind = "other_message" -> [limit |-> 0, error |-> "ValueError"]
      [] OTHER -> [limit |-> 0, error |-> "Exception"]

----------------------------------------------------------------------------
(* run() of ai_meeting_generator.py, with ReportGenerator inlined *)

\* what reading or transcribing yields: a transcript, or the exception e
ReadOutcomes(e) ==
    {[text |-> t, error |-> "none"] : t \in Transcripts}
    \cup {[text |-> <<>>, error |-> e]}

\* "if transcript_path:" -- the transcript is read from a file
RunReadTranscript ==
    /\ pc = "start"
    /\ \E read \in ReadOutcomes("FileNotFoundError") :
          /\ pc' = IF read.error = "none" THEN "write_trans" ELSE "raised"
          /\ error' = read.error
          /\ transcript' = read.text
    /\ UNCHANGED <<files, usage, slept>>
    /\ UNCHANGED genVars
    /\ UNCHANGED noteVars

\* "else:" -- converter.speech_to_text(); the converter writes
\* {name}_transcript.txt before it returns when save_transcript is set
RunSpeechToText ==
    /\ pc = "start"
    /\ \E save_transcript \in BOOLEAN, result \in ReadOutcomes("Exception") :
          /\ pc' = IF result.error = "none" THEN "write_trans" ELSE "raised"
          /\ error' = result.error
          /\ transcript' = result.text
          /\ files' = IF result.error = "none" /\ save_transcript
                      THEN files \cup {"audio_transcript.txt"}
                      ELSE files
    /\ UNCHANGED <<usage, slept>>
    /\ UNCHANGED genVars
    /\ UNCHANGED noteVars

\* with open("trans.txt", "w") as f: f.write(str(transcript))
RunWriteTrans ==
    /\ pc = "write_trans"
    /\ files' = files \cup {"trans.txt"}
    /\ pc' = "init_generator"
    /\ UNCHANGED <<transcript, usage, error, slept>>
    /\ UNCHANGED genVars
    /\ UNCHANGED noteVars

\* ReportGenerator.__init__: the ledger starts at zero, the limit is probed
InitGenerator ==
    /\ pc = "init_generator"
    /\ \E response \in ProbeResponses :
          LET r == GetModelLimit(response)
          IN  /\ model_limit' = r.limit
              /\ probe' = response
              /\ error' = r.error
              /\ pc' = IF r.error = "none" THEN "split" ELSE OnFatal("probe")
    /\ prompt_tokens' = 0
    /\ completion_tokens' = 0
    /\ UNCHANGED <<transcript, files, chunks, pass_limit, summary_list, attempt,
                   report, usage, cycles, calls, failed, okPrompt, okCompletion, call,
                   cycle_tokens, best_chunk, runs, sideVars, slept>>
    /\ UNCHANGED noteVars

\* a variant that goes to the structure call when the first split fits
AfterFirstSplitUsingFlag(flag) == IF flag THEN "structure" ELSE "narrate"

\* "chunks, _ = ...": the flag of the first split is dropped and the loop
\* starts with a narrate batch
AfterFirstSplit(flag) == "narrate"

\* generate_report: chunks, _ = self._best_choice_split(self.transcript)
GenerateSplit ==
    /\ pc = "split"
    /\ LET r == BestChoiceSplit(transcript, model_limit)
       IN  /\ chunks' = r.chunks
           /\ best_chunk' = r.best_chunk
           /\ error' = r.error
           /\ pc' = IF r.error = "none" THEN AfterFirstSplit(r.pass_limit)
                    ELSE OnFatal("split")
           /\ cycle_tokens' = r.transcript_token
    /\ attempt' = 0
    /\ UNCHANGED <<transcript, files, model_limit, prompt_tokens,
                   completion_tokens, pass_limit, summary_list, report, usage,
                   cycles, calls, failed, okPrompt, okCompletion, call, slept>>
    /\ runs' = runs + 1
    /\ UNCHANGED <<probe, sideVars>>
    /\ UNCHANGED noteVars

\* generate_report: summary_list = self._preprocess_chunks(chunks), one
\* attempt of the batch of len(chunks) requests
NarrateAttempt ==
    /\ pc = "narrate"
    /\ \E response \in Responses(Len(chunks), NarrateOutputs) :
          LET n == Len(chunks)
              res == ParseResponse(prompt_tokens, completion_tokens, response, n)
              out == AttemptOutcome(res.error, attempt)
          IN  /\ GatewayAttempt("narrate", response, n)
              /\ summary_list' = IF out = "return" THEN res.assistant_responses
                                 ELSE summary_list
              /\ cycles' = IF out = "return" THEN cycles + 1 ELSE cycles
              /\ pc' = CASE out = "return" -> "resplit"
                         [] out = "retry" -> "narrate"
                         [] OTHER -> OnFatal("narrate")
    /\ UNCHANGED <<transcript, files, model_limit, chunks, pass_limit, report,
                   usage, cycle_tokens, best_chunk, slept>>
    /\ UNCHANGED <<probe, runs, sideVars>>
    /\ UNCHANGED noteVars

\* a variant that leaves the loop whatever the flag
AfterSplitIgnoringFlag(flag) == "structure"

\* generate_report: "if pass_limit: break" -- the structure call follows a
\* split that fits, another narrate batch one that does not
AfterSplit(flag) == IF flag THEN "structure" ELSE "narrate"

\* generate_report: chunks, pass_limit = self._best_choice_split("".join(
\* summary_list)); "if pass_limit: break"
ReSplit ==
    /\ pc = "resplit"
    /\ LET data == Join(summary_list)
           r == BestChoiceSplit(data, model_limit)
       IN  /\ (r.error = "none" /\ ~r.pass_limit) => cycles < MaxCycles
           /\ chunks' = r.chunks
           /\ pass_limit' = r.pass_limit
           /\ best_chunk' = r.best_chunk
           /\ error' = r.error
           /\ cycle_tokens' = r.transcript_token
           /\ pc' = IF r.error # "none" THEN OnFatal("split")
                    ELSE AfterSplit(r.pass_limit)
    /\ attempt' = 0
    /\ UNCHANGED <<transcript, files, model_limit, prompt_tokens,
                   completion_tokens, summary_list, report, usage, cycles,
                   calls, failed, okPrompt, okCompletion, call, slept>>
    /\ UNCHANGED <<probe, runs, sideVars>>
    /\ UNCHANGED noteVars

\* generate_report: report_content = self._generate_report_content(
\* data=str(chunks)); return report_content[0] -- one attempt of the request
StructureAttempt ==
    /\ pc = "structure"
    /\ \E response \in Responses(1, ReportOutputs) :
          LET res == ParseResponse(prompt_tokens, completion_tokens, response, 1)
              out == AttemptOutcome(res.error, attempt)
          IN  /\ GatewayAttempt("structure", response, 1)
              /\ report' = IF out = "return" THEN <<res.assistant_responses[1]>>
                           ELSE report
              /\ pc' = CASE out = "return" -> "get_usage"
                         [] out = "retry" -> "structure"
                         [] OTHER -> OnFatal("structure")
    /\ UNCHANGED <<transcript, files, model_limit, chunks, pass_limit,
                   summary_list, usage, cycles, cycle_tokens, best_chunk, slept>>
    /\ UNCHANGED <<probe, runs, sideVars>>
    /\ UNCHANGED noteVars

\* usage["text cost"] = generator.get_spent_tokens()
GetSpentTokens ==
    /\ pc = "get_usage"
    /\ usage' = <<[prompt_tokens |-> prompt_tokens,
                   completion_tokens |-> completion_tokens]>>
    /\ pc' = "export"
    /\ UNCHANGED <<transcript, files, error, slept>>
    /\ UNCHANGED genVars
    /\ UNCHANGED noteVars

\* exporter = ReportExporter(meeting_name=..., summary=..., usage=...,
\* output_path=...): the class in export_records.py is constructed as
\* ReportExporter(output_directory) and takes none of these keywords, so the
\* call raises TypeError; export_txt and export_json are not reached and no
\* report file is written
RunExport ==
    /\ pc = "export"
    /\ pc' = "raised"
    /\ error' = "TypeError"
    /\ UNCHANGED <<transcript, files, usage, slept>>
    /\ UNCHANGED genVars
    /\ UNCHANGED noteVars

----------------------------------------------------------------------------
(* _call_azure_api of note.py *)

\* what requests.post(...).json() yields: a body with choices, content and
\* usage; one with choices whose content is empty; one without choices; one
\* with content but no usage (KeyError); or no body at all (the request or
\* the JSON parse raised).  None of the exceptions is an OpenAIError, so the
\* except clause never takes them and they leave the function.
AzureResponses ==
    {[shape |-> "ok", content |-> t] : t \in ReportOutputs}
    \cup {[shape |-> k, content |-> <<>>] :
             k \in {"no_content", "no_choices", "no_usage", "exception"}}

\* one pass of "for retry in range(retries)"
AzureAttempt ==
    /\ npc = "post"
    /\ \E response \in AzureResponses :
          LET soft == response.shape \in {"no_content", "no_choices"}
              last == retry = retries - 1
          IN  /\ npc' = CASE response.shape = "ok" -> "returned"
                          [] soft /\ ~last -> "post"
                          [] OTHER -> "raised"
              /\ nresult' =
                    CASE response.shape = "ok" ->
                           [content |-> <<response.content>>, error |-> "none"]
                      [] soft /\ ~last -> nresult
                      [] soft /\ last ->
                           [content |-> <<>>, error |-> "RuntimeError"]
                      [] response.shape = "no_usage" ->
                           [content |-> <<>>, error |-> "KeyError: usage"]
                      [] OTHER -> [content |-> <<>>, error |-> "Exception"]
              /\ retry' = IF soft /\ ~last THEN retry + 1 ELSE retry
              /\ slept' = IF soft /\ ~last THEN slept + RETRY_DELAY ELSE slept
    /\ UNCHANGED <<pc, transcript, files, usage, error>>
    /\ UNCHANGED genVars

----------------------------------------------------------------------------
(* The programs *)

\* what every execution starts from, apart from its inputs
Fresh ==
    /\ files = {}
    /\ prompt_tokens = 0
    /\ completion_tokens = 0
    /\ chunks = <<>>
    /\ pass_limit = FALSE
    /\ summary_list = <<>>
    /\ attempt = 0
    /\ report = <<>>
    /\ usage = <<>>
    /\ error = "none"
    /\ cycles = 0
    /\ calls = 0
    /\ failed = 0
    /\ okPrompt = 0
    /\ okCompletion = 0
    /\ call = NoCall
    /\ cycle_tokens = 0
    /\ best_chunk = 0
    /\ probe = NoProbe
    /\ runs = 0
    /\ slept = 0
    /\ retry = 0
    /\ nresult = [content |-> <<>>, error |-> "none"]

\* UsageRecorder.__init__ and no call of _count_tokens yet
FreshRecorder == [audio_minutes |-> 0, prompt_tokens |-> 0,
                  completion_tokens |-> 0]

\* no converter constructed
NoConverter == [file_path |-> "none", save_transcript |-> FALSE,
                mp3_path |-> "none", remove_mp3 |-> FALSE,
                mp3_dir_path |-> "none", listed |-> <<>>,
                combined_transcript |-> <<>>, error |-> "none"]

LateFresh ==
    /\ answer = <<>>
    /\ processed = <<>>
    /\ converter = NoConverter
    /\ audio_files = <<>>

SideFresh ==
    /\ num_tokens = NoCount
    /\ recorder = FreshRecorder
    /\ snapshot = <<>>
    /\ disk = <<>>
    /\ exports = <<>>
    /\ LateFresh

\* A behaviour is one execution of run() or one call of _call_azure_api.
Init ==
    /\ \/ pc = "start" /\ npc = "idle"
       \/ pc = "idle" /\ npc = "post"
    /\ transcript = <<>>
    /\ model_limit = 0
    /\ chunk_size = 0
    /\ text_model = ExampleTextModel
    /\ SideFresh
    /\ Fresh

Next ==
    \/ RunReadTranscript
    \/ RunSpeechToText
    \/ RunWriteTrans
    \/ InitGenerator
    \/ GenerateSplit
    \/ NarrateAttempt
    \/ ReSplit
    \/ StructureAttempt
    \/ GetSpentTokens
    \/ RunExport
    \/ AzureAttempt

Spec == Init /\ [][Next]_vars

----------------------------------------------------------------------------
(* _best_choice_split on its own *)

\* context lengths a provider may report to the probe
SplitContextLengths == {2300, 3300, 4097}
SplitLimits == {c - PROBE_MARGIN : c \in SplitContextLengths}

\* lengths (in characters) of the texts handed to the split
SplitLengths == {0, 600, 993, 1400, 1800, 2500, 3100}
SplitTexts == {MkText(n, kind) : n \in SplitLengths, kind \in TextKinds}

\* chunks, pass_limit = self._best_choice_split(split_data)
SplitCall ==
    /\ pc = "split_call"
    /\ LET r == BestChoiceSplit(transcript, model_limit)
       IN  /\ chunks' = r.chunks
           /\ pass_limit' = r.pass_limit
           /\ best_chunk' = r.best_chunk
           /\ error' = r.error
           /\ cycle_tokens' = r.transcript_token
    /\ pc' = "split_done"
    /\ UNCHANGED <<transcript, files, model_limit, prompt_tokens,
                   completion_tokens, summary_list, attempt, report, usage,
                   cycles, calls, failed, okPrompt, okCompletion, call, slept>>
    /\ UNCHANGED <<probe, runs, sideVars>>
    /\ UNCHANGED noteVars

SplitInit ==
    /\ pc = "split_call"
    /\ npc = "idle"
    /\ transcript \in SplitTexts
    /\ model_limit \in SplitLimits
    /\ chunk_size = 0
    /\ text_model = ExampleTextModel
    /\ SideFresh
    /\ Fresh

SplitNext == SplitCall

SplitSpec == SplitInit /\ [][SplitNext]_vars

----------------------------------------------------------------------------
(* The simple fixed-size split (_chunk_transcript), on its own *)

\* a variant whose counter advances on every character
IsCjkOrOther(c) == TRUE

\* a character in the range U+4E00 to U+9FFF
IsCjk(c) == c = "W"

\* the positions of the characters that advance the length counter
CountedPositions(text) ==
    SelectSeq([i \in 1..Len(text) |-> i], LAMBDA i : IsCjk(text[i]))

\* a variant that does not flush the trailing partial chunk
ChunkTranscriptNoFlush(text, size) ==
    LET counted == CountedPositions(text)
        full == Len(counted) \div size
        last(j) == counted[j * size]
        first(j) == IF j = 1 THEN 1 ELSE last(j - 1) + 1
    IN  [j \in 1..full |-> SubSeq(text, first(j), last(j))]

\* The walk over the text: the counter advances on the counted characters
\* only; the chunk is closed with the character that brings the counter to
\* size, the next chunk starts with the next character, and the characters
\* left at the end are flushed as the last chunk.
ChunkTranscript(text, size) ==
    LET counted == CountedPositions(text)
        full == Len(counted) \div size
        last(j) == counted[j * size]
        first(j) == IF j = 1 THEN 1 ELSE last(j - 1) + 1
        closed == [j \in 1..full |-> SubSeq(text, first(j), last(j))]
        rest == SubSeq(text, IF full = 0 THEN 1 ELSE last(full) + 1, Len(text))
    IN  IF Len(rest) = 0 THEN closed ELSE Append(closed, rest)

\* the chunk sizes and the texts the split is called with
ChunkSizes == {1, 2, 3, 5, 4000}
ChunkTextLengths == {0, 1, 4, 9, 50}
ChunkTextKinds == {"ascii", "prose", "cjk", "han"}
ChunkTexts ==
    {MkText(n, kind) : n \in ChunkTextLengths, kind \in ChunkTextKinds}
    \cup {MkText(5000, "han")}

\* chunks = ReportGenerator._chunk_transcript(transcript, chunk_size)
ChunkCall ==
    /\ pc = "chunk_call"
    /\ chunks' = ChunkTranscript(transcript, chunk_size)
    /\ pc' = "chunk_done"
    /\ UNCHANGED <<transcript, files, model_limit, prompt_tokens,
                   completion_tokens, pass_limit, summary_list, attempt,
                   report, usage, error, cycles, calls, failed, okPrompt,
                   okCompletion, call, cycle_tokens, best_chunk, probe,
                   runs, chunk_size, text_model, num_tokens, recorder,
                   snapshot, slept>>
    /\ UNCHANGED exportVars
    /\ UNCHANGED lateVars
    /\ UNCHANGED noteVars

ChunkInit ==
    /\ pc = "chunk_call"
    /\ npc = "idle"
    /\ transcript \in ChunkTexts
    /\ chunk_size \in ChunkSizes
    /\ text_model = ExampleTextModel
    /\ SideFresh
    /\ model_limit = 0
    /\ Fresh

ChunkNext == ChunkCall

ChunkSpec == ChunkInit /\ [][ChunkNext]_vars

----------------------------------------------------------------------------
(* _count_tokens, called on its own and from _best_choice_split *)

CountLengths == {0, 5, 50}
CountTexts ==
    {MkText(n, kind) : n \in CountLengths, kind \in {"ascii", "cjk"}}

\* ReportGenerator._count_tokens(content, model)
CountCall ==
    /\ pc = "count_call"
    /\ num_tokens' = CountTokensFor(transcript, text_model)
    /\ pc' = "count_done"
    /\ UNCHANGED <<transcript, files, error, usage, slept, model_limit,
                   prompt_tokens, completion_tokens, chunks, pass_limit,
                   summary_list, attempt, report, cycles, calls, failed,
                   okPrompt, okCompletion, call, cycle_tokens, best_chunk,
                   probe, runs, chunk_size, text_model, recorder, snapshot>>
    /\ UNCHANGED exportVars
    /\ UNCHANGED lateVars
    /\ UNCHANGED noteVars

\* transcript_token = self._count_tokens(split_data), in a generator whose
\* model is text_model: the call passes no model
SplitCount ==
    /\ pc = "count_call"
    /\ num_tokens' = CountTokensFor(transcript, DefaultCountModel)
    /\ pc' = "split_counted"
    /\ UNCHANGED <<transcript, files, error, usage, slept, model_limit,
                   prompt_tokens, completion_tokens, chunks, pass_limit,
                   summary_list, attempt, report, cycles, calls, failed,
                   okPrompt, okCompletion, call, cycle_tokens, best_chunk,
                   probe, runs, chunk_size, text_model, recorder, snapshot>>
    /\ UNCHANGED exportVars
    /\ UNCHANGED lateVars
    /\ UNCHANGED noteVars

CountInit ==
    /\ pc = "count_call"
    /\ npc = "idle"
    /\ transcript \in CountTexts
    /\ text_model \in ModelIds
    /\ model_limit = 0
    /\ chunk_size = 0
    /\ SideFresh
    /\ Fresh

CountNext ==
    \/ CountCall
    \/ SplitCount

CountSpec == CountInit /\ [][CountNext]_vars

----------------------------------------------------------------------------
(* UsageRecorder *)

\* the counts recorded in the object's attributes
RecordedPrompts == {0, 10, 200, 6000}
RecordedCompletions == {0, 20, 1000, 1800}

\* a variant that leaves the completion tokens out of the total
CalculateReportUsagePromptOnly(self) ==
    [prompt_tokens |-> self.prompt_tokens,
     completion_tokens |-> self.completion_tokens,
     total_tokens |-> self.prompt_tokens,
     cost |-> self.prompt_tokens * 2]

\* _calculate_report_usage: (prompt_tokens, completion_tokens, total_tokens,
\* cost); cost = (total_tokens / 1000) * 0.002 is kept in millionths
CalculateReportUsage(self) ==
    [prompt_tokens |-> self.prompt_tokens,
     completion_tokens |-> self.completion_tokens,
     total_tokens |-> self.prompt_tokens + self.completion_tokens,
     cost |-> (self.prompt_tokens + self.completion_tokens) * 2]

\* recorder.prompt_tokens = ...; recorder.completion_tokens = ...
RecordUsage ==
    /\ pc = "recorder"
    /\ \E p \in RecordedPrompts, c \in RecordedCompletions :
          recorder' = [recorder EXCEPT !.prompt_tokens = p,
                                       !.completion_tokens = c]
    /\ UNCHANGED <<pc, transcript, files, error, usage, slept, model_limit,
                   prompt_tokens, completion_tokens, chunks, pass_limit,
                   summary_list, attempt, report, cycles, calls, failed,
                   okPrompt, okCompletion, call, cycle_tokens, best_chunk,
                   probe, runs, chunk_size, text_model, num_tokens, snapshot>>
    /\ UNCHANGED exportVars
    /\ UNCHANGED lateVars
    /\ UNCHANGED noteVars

\* recorder.get_report_usage()
GetReportUsage ==
    /\ pc = "recorder"
    /\ snapshot' = <<CalculateReportUsage(recorder)>>
    /\ UNCHANGED <<pc, transcript, files, error, usage, slept, model_limit,
                   prompt_tokens, completion_tokens, chunks, pass_limit,
                   summary_list, attempt, report, cycles, calls, failed,
                   okPrompt, okCompletion, call, cycle_tokens, best_chunk,
                   probe, runs, chunk_size, text_model, num_tokens, recorder>>
    /\ UNCHANGED exportVars
    /\ UNCHANGED lateVars
    /\ UNCHANGED noteVars

\* recorder = UsageRecorder()
UsageInit ==
    /\ pc = "recorder"
    /\ npc = "idle"
    /\ transcript = <<>>
    /\ model_limit = 0
    /\ chunk_size = 0
    /\ text_model = ExampleTextModel
    /\ SideFresh
    /\ Fresh

UsageNext ==
    \/ RecordUsage
    \/ GetReportUsage

UsageSpec == UsageInit /\ [][UsageNext]_vars

----------------------------------------------------------------------------
(* A generator whose generate_report is called more than once *)

\* report = generator.generate_report(), on a generator that has already
\* returned a report: nothing is reset on entry
GenerateAgain ==
    /\ pc = "get_usage"
    /\ runs < MaxRuns
    /\ pc' = "split"
    /\ UNCHANGED <<transcript, files, error, usage, slept>>
    /\ UNCHANGED genVars
    /\ UNCHANGED noteVars

\* the transcript of the generator that is used again
ReuseTranscripts == {MkText(50, "prose")}

\* generator = ReportGenerator(transcript, model, api_key) is about to run
ReuseInit ==
    /\ pc = "init_generator"
    /\ npc = "idle"
    /\ transcript \in ReuseTranscripts
    /\ model_limit = 0
    /\ chunk_size = 0
    /\ text_model = ExampleTextModel
    /\ SideFresh
    /\ Fresh

ReuseNext ==
    \/ InitGenerator
    \/ GenerateSplit
    \/ NarrateAttempt
    \/ ReSplit
    \/ StructureAttempt
    \/ GenerateAgain
    \/ GetSpentTokens

ReuseSpec == ReuseInit /\ [][ReuseNext]_vars

----------------------------------------------------------------------------
(* ReportExporter: export_txt and export_json *)

\* exports made by one exporter
MaxExports == 2

\* the characters outside ASCII are written by their code points
SummaryHeader == <<"#", "#", "u6703", "u8b70", "u91cd", "u9ede">>
FollowUpsHeader == <<"#", "#", "u5f8c", "u7e8c", "u884c", "u52d5">>
HexDigits == [u6703 |-> <<"6", "7", "0", "3">>, u8b70 |-> <<"8", "b", "7", "0">>,
              u91cd |-> <<"9", "1", "c", "d">>, u9ede |-> <<"9", "e", "d", "e">>,
              u5f8c |-> <<"5", "f", "8", "c">>, u7e8c |-> <<"7", "e", "8", "c">>,
              u884c |-> <<"8", "8", "4", "c">>, u52d5 |-> <<"5", "2", "d", "5">>,
              W |-> <<"4", "e", "0", "0">>]
NonAscii == DOMAIN HexDigits

\* self.output_directory and the directories that exist
output_directory == <<"/", "o">>
ExistingDirs == {<<"/">>, <<"/", "o">>}

\* the arguments of the export calls
MeetingNames == {<<"M", " ", "1">>, <<"a", "/", "b">>, <<"/", "x">>}
Summaries == {<<"X">>, <<"a", "\"", "\\", "n", "\n", "W">>}
FollowUps == {<<>>, <<"-", " ", "b">>}

TxtExt == <<".", "t", "x", "t">>
JsonExt == <<".", "j", "s", "o", "n">>

\* os.path.join(a, b): an absolute b discards a
PathJoin(a, b) ==
    IF b # <<>> /\ b[1] = "/" THEN b
    ELSE IF a = <<>> \/ a[Len(a)] = "/" THEN a \o b
    ELSE a \o <<"/">> \o b

\* the directory a path lies in
DirName(path) ==
    LET slashes == {i \in 1..Len(path) : path[i] = "/"}
        last == CHOOSE i \in slashes : \A j \in slashes : j <= i
    IN  IF slashes = {} THEN <<>>
        ELSE IF last = 1 THEN <<"/">>
        ELSE SubSeq(path, 1, last - 1)

\* a variant of the open mode that keeps the old content: open(filepath, "a")
OpenAppend(old) == old

\* the content of the file after open(filepath, "w")
OpenWrite(old) == <<>>

\* with open(filepath, "w") as file: file.write(...) ...: FileNotFoundError
\* when the directory does not exist, else the file holds what was written
WriteFile(d, path, written) ==
    IF DirName(path) \notin ExistingDirs
    THEN [disk |-> d, error |-> "FileNotFoundError"]
    ELSE [disk |-> [q \in DOMAIN d \cup {path} |->
                      IF q = path
                      THEN OpenWrite(IF path \in DOMAIN d THEN d[path]
                                     ELSE <<>>) \o written
                      ELSE d[q]],
          error |-> "none"]

\* export_txt: the five file.write calls
TxtContent(meeting_name, summary, follow_ups) ==
    <<"#">> \o meeting_name \o <<"\n", "\n">>
    \o SummaryHeader \o <<"\n">>
    \o summary
    \o <<"\n", "\n">> \o FollowUpsHeader \o <<"\n">>
    \o follow_ups

\* json.dump: a string, escaped with ensure_ascii
JsonEscape(c) ==
    CASE c = "\"" -> <<"\\", "\"">>
      [] c = "\\" -> <<"\\", "\\">>
      [] c = "\n" -> <<"\\", "n">>
      [] c \in NonAscii -> <<"\\", "u">> \o HexDigits[c]
      [] OTHER -> <<c>>

RECURSIVE JsonEscapeAll(_)
JsonEscapeAll(text) ==
    IF text = <<>> THEN <<>>
    ELSE JsonEscape(Head(text)) \o JsonEscapeAll(Tail(text))

JsonString(text) == <<"\"">> \o JsonEscapeAll(text) \o <<"\"">>

KeyMeetingName == <<"m", "e", "e", "t", "i", "n", "g", "_", "n", "a", "m", "e">>
KeySummary == <<"s", "u", "m", "m", "a", "r", "y">>
KeyFollowUps == <<"f", "o", "l", "l", "o", "w", "_", "u", "p", "s">>

\* json.dump(data, json_file) with the default separators
JsonDump(data) ==
    <<"{">> \o JsonString(KeyMeetingName) \o <<":", " ">>
            \o JsonString(data.meeting_name) \o <<",", " ">>
            \o JsonString(KeySummary) \o <<":", " ">>
            \o JsonString(data.summary) \o <<",", " ">>
            \o JsonString(KeyFollowUps) \o <<":", " ">>
            \o JsonString(data.follow_ups) \o <<"}">>

\* json.load: the string literals of the text in order, unescaped
RECURSIVE JsonStrings(_, _, _, _)
JsonStrings(text, i, inside, current) ==
    IF i > Len(text) THEN <<>>
    ELSE IF ~inside
         THEN JsonStrings(text, i + 1, text[i] = "\"", <<>>)
    ELSE IF text[i] = "\""
         THEN <<current>> \o JsonStrings(text, i + 1, FALSE, <<>>)
    ELSE IF text[i] # "\\"
         THEN JsonStrings(text, i + 1, TRUE, Append(current, text[i]))
    ELSE IF text[i + 1] = "n"
         THEN JsonStrings(text, i + 2, TRUE, Append(current, "\n"))
    ELSE IF text[i + 1] = "u"
         THEN JsonStrings(text, i + 6, TRUE,
                  Append(current,
                         CHOOSE c \in NonAscii :
                             HexDigits[c] = SubSeq(text, i + 2, i + 5)))
    ELSE JsonStrings(text, i + 2, TRUE, Append(current, text[i + 1]))

\* json.load: the object, as the value that follows each key
JsonLoad(text) ==
    LET strs == JsonStrings(text, 1, FALSE, <<>>)
        value(key) == strs[1 + CHOOSE i \in 1..Len(strs) :
                                  i % 2 = 1 /\ strs[i] = key]
    IN  [meeting_name |-> value(KeyMeetingName),
         summary |-> value(KeySummary),
         follow_ups |-> value(KeyFollowUps)]

\* exporter.export_txt(meeting_name, summary, follow_ups)
ExportTxt ==
    /\ pc = "exporter"
    /\ Len(exports) < MaxExports
    /\ \E meeting_name \in MeetingNames, summary \in Summaries,
          follow_ups \in FollowUps :
          LET filepath == PathJoin(output_directory, meeting_name \o TxtExt)
              w == WriteFile(disk, filepath,
                             TxtContent(meeting_name, summary, follow_ups))
          IN  /\ disk' = w.disk
              /\ exports' = Append(exports,
                     [op |-> "txt", meeting_name |-> meeting_name,
                      summary |-> summary, follow_ups |-> follow_ups,
                      filepath |-> filepath, error |-> w.error,
                      before |-> disk])
    /\ UNCHANGED <<pc, transcript, files, error, usage, slept, model_limit,
                   prompt_tokens, completion_tokens, chunks, pass_limit,
                   summary_list, attempt, report, cycles, calls, failed,
                   okPrompt, okCompletion, call, cycle_tokens, best_chunk,
                   probe, runs, chunk_size, text_model, num_tokens, recorder,
                   snapshot>>
    /\ UNCHANGED lateVars
    /\ UNCHANGED noteVars

\* exporter.export_json(meeting_name, summary, follow_ups)
ExportJson ==
    /\ pc = "exporter"
    /\ Len(exports) < MaxExports
    /\ \E meeting_name \in MeetingNames, summary \in Summaries,
          follow_ups \in FollowUps :
          LET filepath == PathJoin(output_directory, meeting_name \o JsonExt)
              data == [meeting_name |-> meeting_name, summary |-> summary,
                       follow_ups |-> follow_ups]
              w == WriteFile(disk, filepath, JsonDump(data))
          IN  /\ disk' = w.disk
              /\ exports' = Append(exports,
                     [op |-> "json", meeting_name |-> meeting_name,
                      summary |-> summary, follow_ups |-> follow_ups,
                      filepath |-> filepath, error |-> w.error,
                      before |-> disk])
    /\ UNCHANGED <<pc, transcript, files, error, usage, slept, model_limit,
                   prompt_tokens, completion_tokens, chunks, pass_limit,
                   summary_list, attempt, report, cycles, calls, failed,
                   okPrompt, okCompletion, call, cycle_tokens, best_chunk,
                   probe, runs, chunk_size, text_model, num_tokens, recorder,
                   snapshot>>
    /\ UNCHANGED lateVars
    /\ UNCHANGED noteVars

\* exporter = ReportExporter(output_directory)
ExportInit ==
    /\ pc = "exporter"
    /\ npc = "idle"
    /\ transcript = <<>>
    /\ model_limit = 0
    /\ chunk_size = 0
    /\ text_model = ExampleTextModel
    /\ SideFresh
    /\ Fresh

ExportNext ==
    \/ ExportTxt
    \/ ExportJson

ExportSpec == ExportInit /\ [][ExportNext]_vars

----------------------------------------------------------------------------
(* The post-processing of a model answer (_process_string), on its own *)

\* a occurs in b as a run of consecutive characters
IsSubstring(a, b) ==
    \E i \in 0..(Len(b) - Len(a)) : SubSeq(b, i + 1, i + Len(a)) = a

\* a variant of the duplicate test that looks in one direction only
IsDuplicateOfContaining(line, kept) == IsSubstring(line, kept)

\* the line is a duplicate of a kept line: it is a substring of the kept line
\* or it contains the kept line
IsDuplicateOf(line, kept) == IsSubstring(line, kept) \/ IsSubstring(kept, line)

\* the walk over the lines: a line is kept unless it is a duplicate of a line
\* kept before it
RECURSIVE DropDuplicateLinesFrom(_, _, _)
DropDuplicateLinesFrom(lines, i, kept) ==
    IF i > Len(lines) THEN kept
    ELSE IF \E k \in 1..Len(kept) : IsDuplicateOf(lines[i], kept[k])
         THEN DropDuplicateLinesFrom(lines, i + 1, kept)
    ELSE DropDuplicateLinesFrom(lines, i + 1, Append(kept, lines[i]))

DropDuplicateLines(lines) == DropDuplicateLinesFrom(lines, 1, <<>>)

Digits == {"0", "1", "2", "3", "4", "5", "6", "7", "8", "9"}

\* the line starts as a list item: a bullet, or a number and a period
IsListItem(line) ==
    \/ Len(line) >= 1 /\ line[1] = "-"
    \/ Len(line) >= 2 /\ line[1] \in Digits /\ line[2] = "."

\* a variant that cuts after the first list item
CutAfterFirstListItem(lines) ==
    LET items == {i \in 1..Len(lines) : IsListItem(lines[i])}
    IN  IF items = {} THEN lines
        ELSE SubSeq(lines, 1, CHOOSE i \in items : \A j \in items : i <= j)

\* the lines up to and including the last list item; a text without a list
\* item has no cut point and is left as it is
CutAfterLastListItem(lines) ==
    LET items == {i \in 1..Len(lines) : IsListItem(lines[i])}
    IN  IF items = {} THEN lines
        ELSE SubSeq(lines, 1, CHOOSE i \in items : \A j \in items : j <= i)

\* the lines of the answers, and the answers
MaxLines == 3
AnswerLines == {<<>>, <<"a">>, <<"a", "b">>, <<"b", " ", "a">>,
                <<"-", " ", "a">>, <<"-", " ", "a", "b">>,
                <<"1", ".", " ", "a">>}
Answers == UNION {[1..n -> AnswerLines] : n \in 0..MaxLines}

\* the de-duplication of the answer's lines
DropDuplicatesCall ==
    /\ pc = "process_call"
    /\ processed' = DropDuplicateLines(answer)
    /\ pc' = "duplicates_dropped"
    /\ UNCHANGED <<transcript, files, error, usage, slept, model_limit,
                   prompt_tokens, completion_tokens, chunks, pass_limit,
                   summary_list, attempt, report, cycles, calls, failed,
                   okPrompt, okCompletion, call, cycle_tokens, best_chunk,
                   probe, runs, chunk_size, text_model, num_tokens, recorder,
                   snapshot, answer, converter, audio_files>>
    /\ UNCHANGED exportVars
    /\ UNCHANGED noteVars

\* the truncation of the answer's lines
CutCall ==
    /\ pc = "process_call"
    /\ processed' = CutAfterLastListItem(answer)
    /\ pc' = "cut"
    /\ UNCHANGED <<transcript, files, error, usage, slept, model_limit,
                   prompt_tokens, completion_tokens, chunks, pass_limit,
                   summary_list, attempt, report, cycles, calls, failed,
                   okPrompt, okCompletion, call, cycle_tokens, best_chunk,
                   probe, runs, chunk_size, text_model, num_tokens, recorder,
                   snapshot, answer, converter, audio_files>>
    /\ UNCHANGED exportVars
    /\ UNCHANGED noteVars

ProcessInit ==
    /\ pc = "process_call"
    /\ npc = "idle"
    /\ transcript = <<>>
    /\ model_limit = 0
    /\ chunk_size = 0
    /\ text_model = ExampleTextModel
    /\ num_tokens = NoCount
    /\ recorder = FreshRecorder
    /\ snapshot = <<>>
    /\ disk = <<>>
    /\ exports = <<>>
    /\ answer \in Answers
    /\ processed = <<>>
    /\ converter = NoConverter
    /\ audio_files = <<>>
    /\ Fresh

ProcessNext ==
    \/ DropDuplicatesCall
    \/ CutCall

ProcessSpec == ProcessInit /\ [][ProcessNext]_vars

----------------------------------------------------------------------------
(* SpeechToTextConverter: transcription through the API *)

\* the most segments of 900 seconds a recording has
MaxSegments == 11

\* None where a path is expected
NonePath == <<"None">>

Mp3Ext == <<".", "m", "p", "3">>
supported_formats == {<<".", "m", "p", "4">>, <<".", "m", "p", "e", "g">>,
                      <<".", "m", "p", "g", "a">>, <<".", "m", "4", "a">>,
                      <<".", "w", "a", "v">>, <<".", "w", "e", "b", "m">>}
SegmentsSuffix == <<"_", "s", "e", "g", "m", "e", "n", "t", "s">>
TranscriptSuffix == <<"_", "t", "r", "a", "n", "s", "c", "r", "i", "p", "t",
                      ".", "t", "x", "t">>
output_path == <<"/", "o">>

\* the characters of the paths, in the order of their code points
AsciiOrder == <<".", "/", "0", "1", "2", "3", "4", "5", "6", "7", "8", "9",
                "A", "M", "P", "_", "a", "c", "e", "g", "i", "m", "n", "o",
                "p", "r", "s", "t", "v", "w", "x">>
Ord(c) == CHOOSE i \in 1..Len(AsciiOrder) : AsciiOrder[i] = c

\* a < b on str: by the code points of the first characters that differ
RECURSIVE StrLess(_, _)
StrLess(a, b) ==
    IF b = <<>> THEN FALSE
    ELSE IF a = <<>> THEN TRUE
    ELSE IF a[1] = b[1] THEN StrLess(Tail(a), Tail(b))
    ELSE Ord(a[1]) < Ord(b[1])

\* sorted(names)
RECURSIVE Sorted(_)
Sorted(names) ==
    IF names = {} THEN <<>>
    ELSE LET least == CHOOSE x \in names :
                          \A y \in names \ {x} : StrLess(x, y)
         IN  <<least>> \o Sorted(names \ {least})

DigitChars == <<"0", "1", "2", "3", "4", "5", "6", "7", "8", "9">>

\* str(k) of a natural number
RECURSIVE Str(_)
Str(k) ==
    IF k < 10 THEN <<DigitChars[k + 1]>>
    ELSE Str(k \div 10) \o <<DigitChars[(k % 10) + 1]>>

\* f"segment{i+1}.mp3"
SegmentName(i) ==
    <<"s", "e", "g", "m", "e", "n", "t">> \o Str(i + 1) \o Mp3Ext

LowerChar(c) ==
    IF c = "A" THEN "a" ELSE IF c = "M" THEN "m" ELSE IF c = "P" THEN "p"
    ELSE c
Lower(text) == [i \in 1..Len(text) |-> LowerChar(text[i])]

EndsWith(text, suffix) ==
    /\ Len(text) >= Len(suffix)
    /\ SubSeq(text, Len(text) - Len(suffix) + 1, Len(text)) = suffix

HasPrefix(text, prefix) ==
    /\ Len(text) >= Len(prefix)
    /\ SubSeq(text, 1, Len(prefix)) = prefix

\* os.path.basename(path)
BaseName(path) ==
    LET slashes == {i \in 1..Len(path) : path[i] = "/"}
        last == CHOOSE i \in slashes : \A j \in slashes : j <= i
    IN  IF slashes = {} THEN path ELSE SubSeq(path, last + 1, Len(path))

\* os.path.splitext(path)[0]: the path without the extension of its name
SplitExtRoot(path) ==
    LET start == Len(path) - Len(BaseName(path)) + 1
        dots == {i \in (start + 1)..Len(path) : path[i] = "."}
        last == CHOOSE i \in dots : \A j \in dots : j <= i
    IN  IF dots = {} THEN path ELSE SubSeq(path, 1, last - 1)

\* text.replace(old, ""), for an old that occurs at most once
RemoveOnce(text, old) ==
    LET at == {i \in 0..(Len(text) - Len(old)) :
                  SubSeq(text, i + 1, i + Len(old)) = old}
        i == CHOOSE j \in at : \A k \in at : j <= k
    IN  IF at = {} THEN text
        ELSE SubSeq(text, 1, i) \o SubSeq(text, i + Len(old) + 1, Len(text))

\* a file holding the given quarter hours of a recording, and a directory
AudioFile(parts) == [kind |-> "file", parts |-> parts]
Directory == [kind |-> "dir", parts |-> <<>>]

\* the entries of the directory; the working directory when it is None
ListDir(fs, dir) ==
    LET prefix == IF dir = NonePath THEN <<>> ELSE dir \o <<"/">>
    IN  {SubSeq(p, Len(prefix) + 1, Len(p)) :
            p \in {q \in DOMAIN fs :
                      /\ HasPrefix(q, prefix)
                      /\ Len(q) > Len(prefix)
                      /\ \A i \in (Len(prefix) + 1)..Len(q) : q[i] # "/"
                      /\ (prefix = <<>> => q[1] # "/")}}

\* the files after path was written
Written(fs, path, entry) ==
    [p \in DOMAIN fs \cup {path} |-> IF p = path THEN entry ELSE fs[p]]

\* the files without the given paths
Without(fs, paths) == [p \in DOMAIN fs \ paths |-> fs[p]]

\* shutil.rmtree(dir): the directory and all that lies in it
Tree(fs, dir) == {p \in DOMAIN fs : p = dir \/ HasPrefix(p, dir \o <<"/">>)}

\* what is said in the k-th quarter hour
Spoken(k) == <<"q">> \o Str(k)

\* the text whisper-1 returns for a file
RECURSIVE Transcription(_)
Transcription(parts) ==
    IF parts = <<>> THEN <<>>
    ELSE IF Len(parts) = 1 THEN Spoken(parts[1])
    ELSE Spoken(parts[1]) \o <<" ">> \o Transcription(Tail(parts))

\* "\n".join(list)
RECURSIVE JoinLines(_)
JoinLines(list) ==
    IF list = <<>> THEN <<>>
    ELSE IF Len(list) = 1 THEN list[1]
    ELSE list[1] \o <<"\n">> \o JoinLines(Tail(list))

\* _convert_to_mp3: the mp3 path, the remove flag and the files afterwards;
\* ok is whether pydub reads and exports the file
ConvertToMp3(fs, file_path, ok) ==
    LET failed_result == [mp3_path |-> NonePath, remove_mp3 |-> FALSE,
                          fs |-> fs]
        mp3_path == SplitExtRoot(file_path) \o Mp3Ext
    IN  IF file_path \notin DOMAIN fs \/ fs[file_path].kind # "file"
        THEN failed_result
        ELSE IF EndsWith(Lower(file_path), Mp3Ext)
        THEN [mp3_path |-> file_path, remove_mp3 |-> FALSE, fs |-> fs]
        ELSE IF ~\E fmt \in supported_formats : EndsWith(Lower(file_path), fmt)
        THEN failed_result
        ELSE IF ~ok
        THEN failed_result
        ELSE [mp3_path |-> mp3_path, remove_mp3 |-> TRUE,
              fs |-> Written(fs, mp3_path, fs[file_path])]

\* _split_audio: the directory of the segments and the files afterwards
SplitAudio(fs, mp3_path, ok) ==
    IF mp3_path = NonePath \/ ~ok
    THEN [mp3_dir_path |-> NonePath, fs |-> fs]
    ELSE LET num_segments == Len(fs[mp3_path].parts)
             output_dir == PathJoin(DirName(mp3_path),
                               SplitExtRoot(BaseName(mp3_path))
                                   \o SegmentsSuffix)
             segments == {PathJoin(output_dir, SegmentName(i)) :
                             i \in 0..(num_segments - 1)}
         IN  [mp3_dir_path |-> output_dir,
              fs |-> [p \in DOMAIN fs \cup {output_dir} \cup segments |->
                         IF p \in segments
                         THEN AudioFile(<<CHOOSE i \in 1..num_segments :
                                  p = PathJoin(output_dir, SegmentName(i - 1))>>)
                         ELSE IF p = output_dir THEN Directory
                         ELSE fs[p]]]

\* a variant of the cleanup that removes the mp3 file whatever the flag says
ClearTempfileAlways(fs, audios_dir, mp3_path, remove_flag) ==
    IF mp3_path \notin DOMAIN fs THEN fs
    ELSE IF audios_dir = NonePath THEN Without(fs, {mp3_path})
    ELSE Without(fs, {mp3_path} \cup Tree(fs, audios_dir))

\* _clear_tempfile: the files afterwards; an exception ends the cleanup and
\* is logged
ClearTempfile(fs, audios_dir, mp3_path, remove_flag) ==
    IF remove_flag /\ mp3_path \notin DOMAIN fs THEN fs
    ELSE LET removed == IF remove_flag THEN {mp3_path} ELSE {}
         IN  IF audios_dir = NonePath THEN Without(fs, removed)
             ELSE Without(fs, removed \cup Tree(fs, audios_dir))

\* the variables the converter leaves alone
audioRest == <<transcript, files, error, usage, slept, model_limit,
               prompt_tokens, completion_tokens, chunks, pass_limit,
               summary_list, attempt, report, cycles, calls, failed,
               okPrompt, okCompletion, call, cycle_tokens, best_chunk,
               probe, runs, chunk_size, text_model, num_tokens, recorder,
               snapshot, answer, processed>>

\* _convert_by_api: mp3_path, remove_mp3 = self._convert_to_mp3(...)
ConvertStep ==
    /\ pc = "convert_by_api"
    /\ \E ok \in BOOLEAN :
          LET r == ConvertToMp3(audio_files, converter.file_path, ok)
          IN  /\ converter' = [converter EXCEPT !.mp3_path = r.mp3_path,
                                                !.remove_mp3 = r.remove_mp3]
              /\ audio_files' = r.fs
    /\ pc' = "converted"
    /\ UNCHANGED audioRest
    /\ UNCHANGED exportVars
    /\ UNCHANGED noteVars

\* _convert_by_api: mp3_dir_path = self._split_audio(mp3_path)
SplitStep ==
    /\ pc = "converted"
    /\ \E ok \in BOOLEAN :
          LET r == SplitAudio(audio_files, converter.mp3_path, ok)
          IN  /\ converter' = [converter EXCEPT
                                  !.mp3_dir_path = r.mp3_dir_path]
              /\ audio_files' = r.fs
    /\ pc' = "segmented"
    /\ UNCHANGED audioRest
    /\ UNCHANGED exportVars
    /\ UNCHANGED noteVars

\* _convert_by_api: the loop over sorted(os.listdir(mp3_dir_path)) and the
\* join of the texts; os.path.join(None, name) raises TypeError, a failing
\* request raises out of the method
TranscribeStep ==
    /\ pc = "segmented"
    /\ LET dir == converter.mp3_dir_path
           listed == Sorted(ListDir(audio_files, dir))
           texts == [i \in 1..Len(listed) |->
                        Transcription(
                            audio_files[PathJoin(dir, listed[i])].parts)]
       IN  \E api_ok \in BOOLEAN :
              IF listed # <<>> /\ (dir = NonePath \/ ~api_ok)
              THEN /\ converter' = [converter EXCEPT
                          !.listed = listed,
                          !.error = IF dir = NonePath THEN "TypeError"
                                    ELSE "APIError"]
                   /\ pc' = "raised"
              ELSE /\ converter' = [converter EXCEPT
                          !.listed = listed,
                          !.combined_transcript = JoinLines(texts)]
                   /\ pc' = "transcribed"
    /\ UNCHANGED audio_files
    /\ UNCHANGED audioRest
    /\ UNCHANGED exportVars
    /\ UNCHANGED noteVars

\* _convert_by_api: "if self.save_transcript:"; os.path.basename(None)
\* raises TypeError
SaveStep ==
    /\ pc = "transcribed"
    /\ IF ~converter.save_transcript
       THEN /\ pc' = "saved"
            /\ UNCHANGED <<converter, audio_files>>
       ELSE IF converter.mp3_dir_path = NonePath
       THEN /\ pc' = "raised"
            /\ converter' = [converter EXCEPT !.error = "TypeError"]
            /\ UNCHANGED audio_files
       ELSE LET base_name == RemoveOnce(BaseName(converter.mp3_dir_path),
                                        SegmentsSuffix)
                transcriptions_path ==
                    PathJoin(output_path, base_name \o TranscriptSuffix)
            IN  /\ pc' = "saved"
                /\ audio_files' = Written(audio_files, transcriptions_path,
                       [kind |-> "text",
                        parts |-> converter.combined_transcript])
                /\ UNCHANGED converter
    /\ UNCHANGED audioRest
    /\ UNCHANGED exportVars
    /\ UNCHANGED noteVars

\* _convert_by_api: self._clear_tempfile(mp3_dir_path, mp3_path, remove_mp3)
\* and the return
ClearStep ==
    /\ pc = "saved"
    /\ audio_files' = ClearTempfile(audio_files, converter.mp3_dir_path,
                                    converter.mp3_path, converter.remove_mp3)
    /\ pc' = "returned"
    /\ UNCHANGED converter
    /\ UNCHANGED audioRest
    /\ UNCHANGED exportVars
    /\ UNCHANGED noteVars

\* the recordings handed to the converter
AudioPaths == {<<"a", ".", "m", "p", "3">>, <<"A", ".", "M", "P", "3">>,
               <<"a", ".", "w", "a", "v">>, <<"a", ".", "t", "x", "t">>}
OtherMp3 == <<"a", ".", "m", "p", "3">>

\* the quarter hours 1..n
Quarters(n) == [k \in 1..n |-> k]

AudioInit ==
    /\ pc = "convert_by_api"
    /\ npc = "idle"
    /\ transcript = <<>>
    /\ model_limit = 0
    /\ chunk_size = 0
    /\ text_model = ExampleTextModel
    /\ num_tokens = NoCount
    /\ recorder = FreshRecorder
    /\ snapshot = <<>>
    /\ disk = <<>>
    /\ exports = <<>>
    /\ answer = <<>>
    /\ processed = <<>>
    /\ \E file_path \in AudioPaths, save_transcript \in BOOLEAN,
          n \in 0..MaxSegments, exists \in BOOLEAN, sibling \in BOOLEAN :
          /\ converter = [file_path |-> file_path,
                          save_transcript |-> save_transcript,
                          mp3_path |-> NonePath, remove_mp3 |-> FALSE,
                          mp3_dir_path |-> NonePath, listed |-> <<>>,
                          combined_transcript |-> <<>>, error |-> "none"]
          /\ audio_files =
                LET recording == IF exists THEN {file_path} ELSE {}
                    other == IF sibling THEN {OtherMp3} ELSE {}
                IN  [p \in recording \cup other |->
                        IF p = file_path /\ exists THEN AudioFile(Quarters(n))
                        ELSE AudioFile(<<>>)]
    /\ Fresh

AudioNext ==
    \/ ConvertStep
    \/ SplitStep
    \/ TranscribeStep
    \/ SaveStep
    \/ ClearStep

AudioSpec == AudioInit /\ [][AudioNext]_vars

----------------------------------------------------------------------------
(* Properties of the gateway and of the run *)

\* C1: the ledger's prompt_tokens and completion_tokens are the sums of the
\* usage of exactly the attempts that returned; a failed attempt adds nothing
C1_LedgerIsSumOfReturnedCalls ==
    /\ prompt_tokens = okPrompt
    /\ completion_tokens = okCompletion

\* C2: when the three attempts of one call have all failed, the call raises
\* and the ledger is what it was before the call
C2_ThreeFailuresLeaveLedger ==
    (call.attempts = max_attempts /\ call.error # "none") =>
        /\ call.outcome = "raise"
        /\ pc = "raised"
        /\ <<prompt_tokens, completion_tokens>> = call.start

\* C3: when a call fails twice and then succeeds, the call returns, the
\* ledger has grown by the third attempt's usage only, and two delays of 10
\* seconds have elapsed during the call
C3_FailTwiceThenSucceed ==
    /\ (call.attempts = max_attempts /\ call.error = "none") =>
          /\ call.outcome = "return"
          /\ prompt_tokens - call.start[1] = call.usage[1]
          /\ completion_tokens - call.start[2] = call.usage[2]
          /\ slept - call.start_slept = 2 * RETRY_DELAY
    /\ (npc = "returned" /\ retry = retries - 1) => slept = 2 * RETRY_DELAY

\* the state part of C4
AttemptsBounded ==
    /\ call.attempts <= max_attempts
    /\ attempt < max_attempts
    /\ retry < retries
    /\ call.outcome # "return_none"
    /\ call.outcome = "return" => call.error = "none"
    /\ call.outcome = "raise" =>
          /\ call.attempts = max_attempts
          /\ error = call.error
          /\ pc = "raised"
    /\ (call.attempts = max_attempts /\ call.error # "none") =>
          call.outcome = "raise"
    /\ (call.outcome = "return" /\ call.stage = "structure") => report # <<>>
    /\ npc = "returned" => (nresult.content # <<>> /\ nresult.error = "none")
    /\ npc = "raised" => (nresult.content = <<>> /\ nresult.error # "none")

\* the step part of C4: an attempt made after a call has returned or raised
\* is the first attempt of another call, and an attempt made after a failed
\* one is the next attempt of the same call
NoAttemptAfterTheLast ==
    /\ (call.outcome \in {"return", "raise"} /\ calls' # calls) =>
          call'.attempts = 1
    /\ (call.outcome = "retry" /\ calls' # calls) =>
          call'.attempts = call.attempts + 1
    /\ npc \in {"returned", "raised"} => UNCHANGED noteVars

ProbeErrors == {"KeyError: error", "ValueError", "Exception"}

\* the state part of C5
FatalAborts ==
    /\ (call.outcome = "raise" \/ error \in ProbeErrors) =>
          /\ pc = "raised"
          /\ report = <<>>
          /\ usage = <<>>
    /\ pc \in {"split", "narrate", "resplit", "structure", "get_usage"} =>
          error = "none"

\* the step part of C5: once an error has left a stage no model call is
\* issued and no report appears
NothingAfterFatal ==
    error # "none" => (calls' = calls /\ report' = report)

\* C5: a fatal error of a gateway call or of the probe, in whichever stage,
\* leaves generate_report at once: the error reaches the caller, no later
\* stage issues a model call, and no report is returned
C5_FatalErrorAborts == [](FatalAborts) /\ [][NothingAfterFatal]_vars

C5_Witness ==
    /\ pc = "raised"
    /\ call.outcome = "raise"
    /\ call.stage = "narrate"
    /\ cycles >= 1

\* C6: run() ends either with a report and a usage snapshot exported, or with
\* an error and no file written
C6_ReportOrNoFile ==
    /\ pc = "raised" => files = {}
    /\ pc = "returned" => (report # <<>> /\ usage # <<>> /\ files # {})

\* C7: when the text a cycle started from did not fit, the narrate / re-split
\* loop goes into another cycle only if the cycle has reduced the token
\* count (a cycle that has not ends the run with an error)
C7_AnotherCycleOnlyOnProgress ==
    [][(pc = "resplit" /\ pc' = "narrate"
          /\ ~Fits(cycle_tokens + COMPLETION_TOKEN + PROMPT_TOKEN, model_limit))
        => cycle_tokens' < cycle_tokens]_vars

----------------------------------------------------------------------------
(* Properties of _best_choice_split *)

\* the split has returned without raising
SplitReturned == pc = "split_done" /\ error = "none"

C9_ChunksConcatenateToText ==
    (SplitReturned /\ ~pass_limit) => Join(chunks) = transcript

\* the chunks hold at most best_chunk tokens each
ChunksWithinBudget ==
    \A k \in 1..Len(chunks) : Len(Encode(chunks[k])) <= best_chunk

RoomForTwoFragments ==
    model_limit - COMPLETION_TOKEN - PROMPT_TOKEN >= 2 * CHUNK_MIN_LENGTH

\* C11: when the split returns more than one chunk, the last chunk holds at
\* least the minimum fragment size (1000 tokens, counted as _count_tokens
\* counts a text); stated for model_limit >= 3200 only
C11_LastChunkNotStarved ==
    (SplitReturned /\ RoomForTwoFragments /\ Len(chunks) > 1) =>
        CountTokens(chunks[Len(chunks)]) >= CHUNK_MIN_LENGTH

----------------------------------------------------------------------------
(* Properties of the probe and of the order of the stages *)

\* the stages of generate_report and what follows them in run()
AfterProbe == {"split", "narrate", "resplit", "structure", "get_usage", "export"}

\* C12: the probe yields the stated maximum context length minus 100 when
\* the answer has the expected shape and fails in every other case, with no
\* limit assigned; no split and no model call happens without a discovered
\* limit
C12_LimitIsDiscoveredOrFails ==
    /\ probe.kind = "context_error" =>
          /\ model_limit = probe.max - PROBE_MARGIN
          /\ error \notin ProbeErrors
    /\ probe.kind \in {"no_error_key", "other_message", "request_failed"} =>
          /\ pc = "raised"
          /\ error \in ProbeErrors
          /\ model_limit = 0
          /\ calls = 0
          /\ chunks = <<>>
    /\ (pc \in AfterProbe \/ calls > 0 \/ chunks # <<>>) =>
          probe.kind = "context_error"

C12_Witness ==
    /\ probe.kind = "other_message"
    /\ pc = "raised"
    /\ error = "ValueError"

\* the state part of C13
StagesInOrder ==
    /\ pc = "narrate" => (Len(chunks) >= 1 /\ cycle_tokens > 0)
    /\ pc = "resplit" =>
          /\ call.stage = "narrate"
          /\ call.outcome = "return"
          /\ Len(summary_list) = Len(chunks)
    /\ (pc = "structure" \/ call.stage = "structure") =>
          /\ pass_limit
          /\ chunks = <<Join(summary_list)>>
    /\ report # <<>> => (call.stage = "structure" /\ call.outcome = "return")

\* the step part of C13: a batch is issued from the stage it belongs to, the
\* chunks stay as they are while a batch is in flight, the narrations are
\* taken over only when every member of the batch has answered, and a split
\* runs only before the first batch or after a batch has returned
BatchesAreAwaited ==
    /\ (calls' # calls /\ call'.stage = "narrate") =>
          (pc = "narrate" /\ chunks' = chunks)
    /\ (calls' # calls /\ call'.stage = "structure") =>
          (pc = "structure" /\ pass_limit /\ chunks' = chunks)
    /\ summary_list' # summary_list =>
          /\ call'.stage = "narrate"
          /\ call'.outcome = "return"
          /\ Len(summary_list') = Len(chunks)
    /\ chunks' # chunks =>
          \/ pc = "split"
          \/ pc = "resplit" /\ call.outcome = "return"

\* C13: the stages of a run follow one another: a narrate batch after the
\* split that made its chunks, the next split after the whole batch has
\* returned, the structure call after a split that fits; no stage takes over
\* part of a batch
C13_StagesAreSequential == [](StagesInOrder) /\ [][BatchesAreAwaited]_vars

C13_Witness ==
    /\ pc = "structure"
    /\ cycles = 2
    /\ Len(summary_list) = 1

----------------------------------------------------------------------------
(* Properties of the simple fixed-size split *)

\* the number of CJK characters of a text
CjkCount(text) == Len(SelectSeq(text, LAMBDA c : c = "W"))

\* C15: for every text and every chunk_size >= 1 the chunks of the simple
\* split, concatenated in order, are the text
C15_SimpleSplitConcatenates ==
    pc = "chunk_done" => Join(chunks) = transcript

C15_Witness ==
    /\ pc = "chunk_done"
    /\ Len(chunks) >= 3
    /\ CjkCount(chunks[Len(chunks)]) < chunk_size
    /\ Join(chunks) = transcript

----------------------------------------------------------------------------
(* Properties of the token count *)

\* C17: _count_tokens raises NotImplementedError exactly for the identifiers
\* outside its list; an identifier tiktoken has no encoding for is counted
\* with the default encoding after a warning instead of failing; and the count
\* _best_choice_split takes for a generator follows the same rule for the
\* generator's text model
C17_UnsupportedModelRule ==
    /\ pc = "count_done" =>
          /\ num_tokens.raised <=> text_model \notin KnownModels
          /\ text_model \notin TiktokenModels =>
                num_tokens.warned /\ ~num_tokens.raised
    /\ pc = "split_counted" =>
          (num_tokens.raised <=> text_model \notin KnownModels)

----------------------------------------------------------------------------
(* Properties of the run on an empty transcript *)

\* C18: when the transcript read from the file or returned by the converter
\* is empty, run() issues no narrate or structure request and produces no
\* report
C18_EmptyTranscriptRefused ==
    (pc \notin {"start", "idle"} /\ transcript = <<>>) =>
        /\ calls = 0
        /\ report = <<>>

----------------------------------------------------------------------------
(* Properties of the usage recorder *)

SnapshotAddsUp ==
    snapshot # <<>> =>
        snapshot[1].total_tokens
            = snapshot[1].prompt_tokens + snapshot[1].completion_tokens

SnapshotIsTheRecord ==
    snapshot' # snapshot =>
        /\ snapshot'[1].prompt_tokens = recorder.prompt_tokens
        /\ snapshot'[1].completion_tokens = recorder.completion_tokens

FreshSnapshotIsZero ==
    (recorder = FreshRecorder /\ snapshot' # snapshot) =>
        snapshot' = <<[prompt_tokens |-> 0, completion_tokens |-> 0,
                       total_tokens |-> 0, cost |-> 0]>>

\* C19: in every tuple get_report_usage returns, total_tokens is
\* prompt_tokens + completion_tokens and both counts are the recorded ones,
\* and the tuple of a recorder that recorded nothing is (0, 0, 0, 0)
C19_SnapshotAddsUp ==
    /\ [](SnapshotAddsUp)
    /\ [][pc = "recorder" => SnapshotIsTheRecord /\ FreshSnapshotIsZero]_vars

C19_Witness ==
    /\ pc = "recorder"
    /\ snapshot # <<>>
    /\ snapshot[1].prompt_tokens = 6000
    /\ snapshot[1].completion_tokens = 1800
    /\ snapshot[1].total_tokens = 7800

----------------------------------------------------------------------------
(* Properties of the ledger over several runs *)

\* C20: at the start of every run of generate_report the ledger's prompt and
\* completion counts are zero, also when the run is not the first one on the
\* generator
C20_LedgerStartsAtZero ==
    pc = "split" => (prompt_tokens = 0 /\ completion_tokens = 0)

----------------------------------------------------------------------------
(* Properties of the exporter *)

\* the last export call, and the file the claims name for it
LastExport == exports[Len(exports)]

RECURSIVE NormPath(_)
NormPath(path) ==
    IF Len(path) < 2 THEN path
    ELSE IF path[1] = "/" /\ path[2] = "/" THEN NormPath(Tail(path))
    ELSE <<Head(path)>> \o NormPath(Tail(path))

NamedFile(ext) ==
    NormPath(output_directory \o <<"/">> \o LastExport.meeting_name \o ext)

\* C21: after export_txt(meeting_name, summary, follow_ups) the file
\* {output_directory}/{meeting_name}.txt holds '#' + meeting_name, a blank
\* line, the summary header and the summary, a blank line, the follow-ups
\* header and the follow-ups, for every meeting name, summary and follow-ups
C21_TxtLayout ==
    (exports # <<>> /\ LastExport.op = "txt") =>
        /\ NamedFile(TxtExt) \in DOMAIN disk
        /\ disk[NamedFile(TxtExt)]
              = <<"#">> \o LastExport.meeting_name \o <<"\n", "\n">>
                \o SummaryHeader \o <<"\n">> \o LastExport.summary
                \o <<"\n", "\n">> \o FollowUpsHeader \o <<"\n">>
                \o LastExport.follow_ups

\* C22: after export_json(meeting_name, summary, follow_ups), parsing
\* {output_directory}/{meeting_name}.json gives back the three arguments,
\* for every value of the three strings
C22_JsonRoundTrip ==
    (exports # <<>> /\ LastExport.op = "json") =>
        /\ NamedFile(JsonExt) \in DOMAIN disk
        /\ JsonLoad(disk[NamedFile(JsonExt)])
              = [meeting_name |-> LastExport.meeting_name,
                 summary |-> LastExport.summary,
                 follow_ups |-> LastExport.follow_ups]

\* what an export call writes
ExportedContent(e) ==
    IF e.op = "txt" THEN TxtContent(e.meeting_name, e.summary, e.follow_ups)
    ELSE JsonDump([meeting_name |-> e.meeting_name, summary |-> e.summary,
                   follow_ups |-> e.follow_ups])

\* after an export the file holds what this call wrote and nothing else, and
\* the other files are as they were
ReplacesWholeContent ==
    (exports # <<>> /\ LastExport.error = "none") =>
        /\ disk[LastExport.filepath] = ExportedContent(LastExport)
        /\ \A q \in DOMAIN disk \ {LastExport.filepath} :
              q \in DOMAIN LastExport.before /\ disk[q] = LastExport.before[q]

\* the step repeats the previous export call with the same arguments
SameExportAgain ==
    /\ exports # <<>>
    /\ Len(exports') = Len(exports) + 1
    /\ exports'[Len(exports')].op = LastExport.op
    /\ exports'[Len(exports')].meeting_name = LastExport.meeting_name
    /\ exports'[Len(exports')].summary = LastExport.summary
    /\ exports'[Len(exports')].follow_ups = LastExport.follow_ups

\* C23: an export repeated with the same arguments leaves every file as the
\* first run left it, and an export over an existing file replaces its whole
\* content
C23_ExportOverwrites ==
    /\ [](ReplacesWholeContent)
    /\ [][SameExportAgain => disk' = disk]_vars

C23_Witness ==
    /\ Len(exports) = 2
    /\ exports[1].error = "none"
    /\ exports[2].error = "none"
    /\ exports[1].filepath = exports[2].filepath
    /\ Len(exports[1].summary) > Len(exports[2].summary)
    /\ disk[exports[2].filepath] = ExportedContent(exports[2])

----------------------------------------------------------------------------
(* Properties of the post-processing *)

\* the lines of a text at the positions in K, in order
LinesAt(lines, K) ==
    [k \in 1..Cardinality(K) |->
        lines[CHOOSE i \in K : Cardinality({j \in K : j < i}) = k - 1]]

\* K is the set of kept positions of the rule: a position is dropped exactly
\* when a kept position before it holds a line in a substring relation with
\* its line
KeptByTheRule(lines, K) ==
    \A i \in 1..Len(lines) :
        i \notin K <=>
            \E j \in K : j < i /\ (IsSubstring(lines[i], lines[j])
                                   \/ IsSubstring(lines[j], lines[i]))

\* C24: the de-duplication keeps the lines in order and drops a line exactly
\* when an earlier kept line contains it or is contained in it; no two kept
\* lines are in a substring relation, the first line is kept, and a second
\* application changes nothing
C24_DuplicatesDropped ==
    pc = "duplicates_dropped" =>
        /\ \E K \in SUBSET (1..Len(answer)) :
              /\ KeptByTheRule(answer, K)
              /\ processed = LinesAt(answer, K)
        /\ \A i, j \in 1..Len(processed) :
              i # j => ~IsSubstring(processed[i], processed[j])
        /\ answer # <<>> => (processed # <<>> /\ processed[1] = answer[1])
        /\ DropDuplicateLines(processed) = processed

C24_Witness ==
    /\ pc = "duplicates_dropped"
    /\ answer = <<<<"a", "b">>, <<"a">>, <<"1", ".", " ", "a">>>>
    /\ processed = <<<<"a", "b">>, <<"1", ".", " ", "a">>>>

\* C25: the truncation keeps every line up to and including the last list
\* item, unchanged and in order, and removes every line after it
C25_CutAfterLastItem ==
    pc = "cut" =>
        LET items == {i \in 1..Len(answer) : IsListItem(answer[i])}
        IN  items # {} =>
                \E last \in items :
                    /\ \A i \in items : i <= last
                    /\ Len(processed) = last
                    /\ \A i \in 1..last : processed[i] = answer[i]

C25_Witness ==
    /\ pc = "cut"
    /\ Len(answer) = 3
    /\ IsListItem(answer[1])
    /\ IsListItem(answer[2])
    /\ ~IsListItem(answer[3])
    /\ processed = SubSeq(answer, 1, 2)

----------------------------------------------------------------------------
(* Properties of the arithmetic of _best_choice_split *)

\* the limit the claims on the split's arithmetic start from
DiscoveredLimit == model_limit >= 2 * CHUNK_MIN_LENGTH + COMPLETION_TOKEN
                                  + PROMPT_TOKEN

\* the split has taken the branch that recomputes best_chunk
Recomputed ==
    /\ pc = "split_done"
    /\ ~pass_limit
    /\ PyMod(cycle_tokens, model_limit - COMPLETION_TOKEN - PROMPT_TOKEN)
          < CHUNK_MIN_LENGTH

\* C26: under a model_limit of 3200 or more _best_choice_split returns
\* without an arithmetic error for every text: available_chunk_space is
\* positive and the quotient the recomputation divides by is at least 1
C26_NoArithmeticError ==
    (pc = "split_done" /\ DiscoveredLimit) =>
        /\ error = "none"
        /\ model_limit - COMPLETION_TOKEN - PROMPT_TOKEN > 0
        /\ Recomputed =>
              PyFloorDiv(cycle_tokens,
                         model_limit - COMPLETION_TOKEN - PROMPT_TOKEN) >= 1

C26_Witness ==
    /\ DiscoveredLimit
    /\ Recomputed
    /\ error = "none"
    /\ model_limit = 3200
    /\ PyFloorDiv(cycle_tokens, model_limit - COMPLETION_TOKEN - PROMPT_TOKEN)
          = 1

\* C27: whenever _best_choice_split splits under a model_limit of 3200 or
\* more, 1 <= best_chunk <= model_limit - 1000 - 200, and every chunk together
\* with the reserved completion and prompt tokens stays within model_limit
C27_BudgetWithinLimit ==
    (SplitReturned /\ DiscoveredLimit /\ ~pass_limit) =>
        /\ 1 <= best_chunk
        /\ best_chunk <= model_limit - COMPLETION_TOKEN - PROMPT_TOKEN
        /\ \A k \in 1..Len(chunks) :
              Len(Encode(chunks[k])) + COMPLETION_TOKEN + PROMPT_TOKEN
                  <= model_limit

C27_Witness ==
    /\ SplitReturned
    /\ DiscoveredLimit
    /\ ~pass_limit
    /\ best_chunk = model_limit - COMPLETION_TOKEN - PROMPT_TOKEN
    /\ \E k \in 1..Len(chunks) :
          Len(Encode(chunks[k])) + COMPLETION_TOKEN + PROMPT_TOKEN = model_limit

----------------------------------------------------------------------------
(* Properties of the shape of a successful run *)

\* a report was returned only after the probe and a narrate batch
ReportAfterNarration ==
    report # <<>> =>
        /\ probe.kind = "context_error"
        /\ cycles >= 1
        /\ call.stage = "structure"
        /\ call.outcome = "return"

\* the first split is followed by a narrate batch whatever its flag; the
\* structure call starts after a narrate batch, is not followed by another
\* narrate batch or structure call, and nothing is requested after the report
NarrateThenOneStructure ==
    /\ (pc = "split" /\ pc' # "raised") => pc' = "narrate"
    /\ (calls' # calls /\ call'.stage = "structure" /\ call'.attempts = 1) =>
          (call.stage = "narrate" /\ call.outcome = "return" /\ cycles >= 1)
    /\ (calls' # calls /\ call.stage = "structure") =>
          (call'.stage = "structure" /\ call'.attempts = call.attempts + 1)
    /\ report # <<>> => calls' = calls

\* C28: generate_report ignores the flag of the first split: a run that
\* returns a report has made the probe, then one or more narrate batches,
\* then exactly one structure call, also when the transcript fits at once
C28_NarrateBeforeStructure ==
    /\ [](ReportAfterNarration)
    /\ [][pc \notin {"idle"} => NarrateThenOneStructure]_vars

C28_Witness ==
    /\ report # <<>>
    /\ Fits(CountTokens(transcript) + COMPLETION_TOKEN + PROMPT_TOKEN,
            model_limit)
    /\ cycles = 1
    /\ call.stage = "structure"

----------------------------------------------------------------------------
(* Properties of the converter *)

\* the texts of the quarter hours 1..n, in the order of the recording
InRecordingOrder(n) == JoinLines([k \in 1..n |-> Spoken(k)])

\* C29: for a recording split into n >= 1 segments segment1.mp3 ...
\* segment{n}.mp3 the combined transcript is the texts of the segments
\* 1, 2, ..., n joined in that order
C29_ChronologicalOrder ==
    (/\ pc = "transcribed"
     /\ converter.mp3_dir_path # NonePath
     /\ Len(converter.listed) >= 1) =>
        converter.combined_transcript =
            InRecordingOrder(Len(converter.listed))

\* no step removes or rewrites the file the converter was given
InputIsKept ==
    converter.file_path \in DOMAIN audio_files =>
        /\ converter.file_path \in DOMAIN audio_files'
        /\ audio_files'[converter.file_path] =
               audio_files[converter.file_path]

\* the remove flag is set only for an mp3 file the conversion has written
\* next to the input
FlagMeansConverted ==
    converter'.remove_mp3 =>
        /\ converter'.mp3_path # converter.file_path
        /\ ~EndsWith(Lower(converter.file_path), Mp3Ext)
        /\ \/ converter.remove_mp3
           \/ /\ pc = "convert_by_api"
              /\ converter'.mp3_path \in DOMAIN audio_files'
              /\ audio_files'[converter'.mp3_path] =
                     audio_files[converter.file_path]

\* the cleanup removes the mp3 file only under the flag, and besides it the
\* segments directory with the segments written into it
CleanupRemovesOnlyTemporaries ==
    (pc = "saved" /\ pc' = "returned") =>
        LET removed == DOMAIN audio_files \ DOMAIN audio_files'
            dir == converter.mp3_dir_path
            generated == IF dir = NonePath THEN {}
                         ELSE {dir} \cup
                              {PathJoin(dir, SegmentName(i)) :
                                  i \in 0..(Len(converter.listed) - 1)}
        IN  /\ converter.mp3_path \in removed => converter.remove_mp3
            /\ removed \ {converter.mp3_path} \subseteq generated
            /\ \A p \in DOMAIN audio_files' : audio_files'[p] = audio_files[p]
            /\ DOMAIN audio_files' \subseteq DOMAIN audio_files

====
